---------------------------- MODULE Spec2Model ----------------------------
(***************************************************************************)
(* Verification model of the suprahedge-dapp repository.                   *)
(*                                                                         *)
(*  Part I   the Solidity vault: the pausable SupraHedgeVault and the      *)
(*           owner-only stub contracts/SupraHedgeVault.sol, as one ledger  *)
(*           whose deployed kind is chosen at construction.                *)
(*  Part II  the environment reader readPublicEnv of the app page.         *)
(*  Part III the app page: wallet hook, read effect, onDeposit and         *)
(*           onWithdraw flows against the USDC token and the vault ABI.    *)
(***************************************************************************)
EXTENDS Integers, Sequences, FiniteSets, TLC

(***************************************************************************)
(* Bounds                                                                  *)
(***************************************************************************)
\* ETH (in wei units of the model) that exists outside and inside the vault.
MaxEth == 2
\* Depth of nested withdraw calls (reentrancy through msg.sender.call).
MaxDepth == 1

\* address(0) and the accounts that call the vault.
Zero == "0x0"
Addrs == {"a1", "a2", "a3"}

VARIABLES
    kind,          \* which contract is deployed: "pausable" or "stub"
    owner,         \* address public owner
    guardian,      \* address public guardian
    paused,        \* bool public paused
    balances,      \* mapping(address => uint256) public balances
    totalAssets,   \* uint256 public totalAssets
    vaultEth,      \* address(this).balance
    stack,         \* withdraw calls whose msg.sender.call has not returned
    last           \* the last completed external call and its revert reason

vaultVars == <<kind, owner, guardian, paused, balances, totalAssets, vaultEth, stack, last>>

VARIABLES
    envSrc,        \* the value each source of readPublicEnv holds for the key read
    envResult      \* what the last readPublicEnv(key) call produced

envVars == <<envSrc, envResult>>

VARIABLES
    VAULT_ADDR,    \* const VAULT_ADDR
    USDC_ADDR,     \* const USDC_ADDR
    wallet,        \* useWallet: wallet
    address,       \* useWallet: address
    decimals,      \* useState<number>(6)
    tvl,           \* useState<bigint>()
    userShares,    \* useState<bigint>()
    usdcBal,       \* useState<bigint>()
    amount,        \* useState('1000'), the characters of the input
    withdrawPct,   \* useState(25)
    busy,          \* useState(false)
    reads,         \* runs of the read effect that await a readContract
    flows,         \* runs of onDeposit and onWithdraw that await a call
    tokenDecimals, \* what USDC.decimals() returns
    chainAllowance,\* USDC.allowance(account, vault) on chain
    mempool,       \* transactions submitted by the wallet and not yet mined
    mined,         \* number of transactions mined so far
    ethereum,      \* whether globalThis.ethereum, the injected provider, exists
    walletError,   \* useWallet: error
    chainId,       \* useWallet: chainId
    connects       \* runs of connect that await a request of the provider

pageVars == <<VAULT_ADDR, USDC_ADDR, wallet, address, decimals, tvl, userShares, usdcBal,
              amount, withdrawPct, busy, reads, flows, tokenDecimals, chainAllowance, mempool, mined,
              ethereum, walletError, chainId, connects>>

vars == <<vaultVars, envVars, pageVars>>

\* What the vault's actions leave alone.
otherVars == <<envVars, pageVars>>

(***************************************************************************)
(* Part I: the vault                                                       *)
(***************************************************************************)
\* The storage a revert rolls back, with the contract's ETH balance.
Storage == [owner |-> owner, guardian |-> guardian, paused |-> paused,
            balances |-> balances, totalAssets |-> totalAssets, vaultEth |-> vaultEth]

SetStorage(s) ==
    /\ owner' = s.owner
    /\ guardian' = s.guardian
    /\ paused' = s.paused
    /\ balances' = s.balances
    /\ totalAssets' = s.totalAssets
    /\ vaultEth' = s.vaultEth

\* A completed call: the function called and its revert reason ("" on success).
Called(op, err) == [op |-> op, err |-> err]

RECURSIVE SumOver(_, _)
SumOver(f, S) == IF S = {} THEN 0
                 ELSE LET x == CHOOSE y \in S : TRUE IN f[x] + SumOver(f, S \ {x})

\* Who can be msg.sender now: anyone between transactions; while the transfer of
\* a withdraw is executing, the code that runs is its recipient's.
CanCall(a) == IF stack = <<>> THEN TRUE ELSE a = stack[Len(stack)].sender

\* modifier onlyOwner
onlyOwner(sender) == sender = owner

\* onlyGuardianOrOwner with the guardian left out of the test.
onlyGuardianOrOwner_OwnerOnly(sender) == sender = owner

\* modifier onlyGuardianOrOwner
onlyGuardianOrOwner(sender) == sender = owner \/ sender = guardian

\* modifier notPaused
notPaused == ~paused

\* constructor(address _guardian), or the stub's constructor()
VaultInit ==
    /\ kind \in {"pausable", "stub"}
    /\ owner \in Addrs
    /\ guardian \in (IF kind = "pausable" THEN Addrs \cup {Zero} ELSE {Zero})
    /\ paused = FALSE
    /\ balances = [a \in Addrs |-> 0]
    /\ totalAssets = 0
    /\ vaultEth = 0
    /\ stack = <<>>
    /\ last = Called("constructor", "")

\* The revert reason of deposit() with msg.value = v; "" when it succeeds.
DepositErr(v) ==
    IF ~notPaused THEN "VAULT_PAUSED"
    ELSE IF ~(v > 0) THEN "ZERO_DEPOSIT"
    ELSE ""

\* deposit() without the line "totalAssets += msg.value".
DepositAs_NoTotal(op, a, v) ==
    /\ kind = "pausable"
    /\ CanCall(a)
    /\ vaultEth + v <= MaxEth
    /\ LET err == DepositErr(v) IN
         /\ last' = Called(op, err)
         /\ IF err = ""
              THEN /\ balances' = [balances EXCEPT ![a] = @ + v]
                   /\ vaultEth' = vaultEth + v
              ELSE UNCHANGED <<balances, vaultEth>>
    /\ UNCHANGED <<kind, owner, guardian, paused, totalAssets, stack, otherVars>>

\* The body of deposit(), entered as op ("deposit", or "receive" for a plain transfer).
DepositAs(op, a, v) ==
    /\ kind = "pausable"
    /\ CanCall(a)
    /\ vaultEth + v <= MaxEth
    /\ LET err == DepositErr(v) IN
         /\ last' = Called(op, err)
         /\ IF err = ""
              THEN /\ balances' = [balances EXCEPT ![a] = @ + v]
                   /\ totalAssets' = totalAssets + v
                   /\ vaultEth' = vaultEth + v
              ELSE UNCHANGED <<balances, totalAssets, vaultEth>>
    /\ UNCHANGED <<kind, owner, guardian, paused, stack, otherVars>>

deposit(a, v) == DepositAs("deposit", a, v)

receive(a, v) == DepositAs("receive", a, v)

\* withdraw without the notPaused modifier.
WithdrawErr_NoPause(a, amt) ==
    IF ~(amt > 0) THEN "ZERO_WITHDRAW"
    ELSE IF ~(balances[a] >= amt) THEN "INSUFFICIENT_BALANCE"
    ELSE IF balances[a] - amt < 0 \/ totalAssets - amt < 0 THEN "PANIC_UNDERFLOW"
    ELSE ""

\* The revert reason of withdraw(amount) before the ETH transfer; the checked
\* subtractions of Solidity 0.8 revert with a panic on underflow.
WithdrawErr(a, amt) ==
    IF ~notPaused THEN "VAULT_PAUSED"
    ELSE IF ~(amt > 0) THEN "ZERO_WITHDRAW"
    ELSE IF ~(balances[a] >= amt) THEN "INSUFFICIENT_BALANCE"
    ELSE IF balances[a] - amt < 0 \/ totalAssets - amt < 0 THEN "PANIC_UNDERFLOW"
    ELSE ""

\* withdraw(amount) up to and including msg.sender.call{value: amount}("").
withdraw(a, amt) ==
    /\ kind = "pausable"
    /\ CanCall(a)
    /\ LET err == WithdrawErr(a, amt) IN
         IF err = ""
           THEN /\ Len(stack) < MaxDepth
                /\ stack' = Append(stack, [sender |-> a, amount |-> amt, snap |-> Storage])
                /\ balances' = [balances EXCEPT ![a] = @ - amt]
                /\ totalAssets' = totalAssets - amt
                /\ vaultEth' = vaultEth - amt
                /\ UNCHANGED last
           ELSE /\ last' = Called("withdraw", err)
                /\ UNCHANGED <<balances, totalAssets, vaultEth, stack>>
    /\ UNCHANGED <<kind, owner, guardian, paused, otherVars>>

\* The failed transfer ignored (no require(ok)): the decrements persist, the ETH
\* is back in the vault and Withdraw is emitted.
TransferFailed_NoRequire(f) ==
    /\ UNCHANGED <<owner, guardian, paused, balances, totalAssets>>
    /\ vaultEth' = vaultEth + f.amount
    /\ last' = Called("withdraw", "")

\* require(ok, "ETH_TRANSFER_FAILED") when the call failed: the transaction state
\* of the whole withdraw is rolled back and the ETH stays in the vault.
TransferFailed(f) ==
    /\ SetStorage(f.snap)
    /\ last' = Called("withdraw", "ETH_TRANSFER_FAILED")

\* The transfer succeeded: emit Withdraw.
TransferOk(f) ==
    /\ UNCHANGED <<owner, guardian, paused, balances, totalAssets, vaultEth>>
    /\ last' = Called("withdraw", "")

\* msg.sender.call returns ok to the innermost pending withdraw.
withdrawReturn(ok) ==
    /\ kind = "pausable"
    /\ stack # <<>>
    /\ LET f == stack[Len(stack)] IN
         IF ok THEN TransferOk(f) ELSE TransferFailed(f)
    /\ stack' = SubSeq(stack, 1, Len(stack) - 1)
    /\ UNCHANGED <<kind, otherVars>>

\* setPaused with the notPaused modifier added to it.
SetPausedErr_NotPaused(a) ==
    IF ~onlyGuardianOrOwner(a) THEN "NOT_AUTHORIZED"
    ELSE IF ~notPaused THEN "VAULT_PAUSED"
    ELSE ""

\* The revert reason of setPaused.
SetPausedErr(a) == IF ~onlyGuardianOrOwner(a) THEN "NOT_AUTHORIZED" ELSE ""

setPaused(a, p) ==
    /\ kind = "pausable"
    /\ CanCall(a)
    /\ LET err == SetPausedErr(a) IN
         /\ last' = Called("setPaused", err)
         /\ paused' = IF err = "" THEN p ELSE paused
    /\ UNCHANGED <<kind, owner, guardian, balances, totalAssets, vaultEth, stack, otherVars>>

\* setGuardian and setOwner guarded by onlyGuardianOrOwner in place of onlyOwner.
SetAddressErr_GuardianToo(a, n) ==
    IF ~onlyGuardianOrOwner(a) THEN "NOT_OWNER"
    ELSE IF ~(n # Zero) THEN "ZERO_ADDRESS"
    ELSE ""

\* The revert reason of setGuardian and of setOwner.
SetAddressErr(a, n) ==
    IF ~onlyOwner(a) THEN "NOT_OWNER"
    ELSE IF ~(n # Zero) THEN "ZERO_ADDRESS"
    ELSE ""

setGuardian(a, n) ==
    /\ kind = "pausable"
    /\ CanCall(a)
    /\ LET err == SetAddressErr(a, n) IN
         /\ last' = Called("setGuardian", err)
         /\ guardian' = IF err = "" THEN n ELSE guardian
    /\ UNCHANGED <<kind, owner, paused, balances, totalAssets, vaultEth, stack, otherVars>>

setOwner(a, n) ==
    /\ kind = "pausable"
    /\ CanCall(a)
    /\ LET err == SetAddressErr(a, n) IN
         /\ last' = Called("setOwner", err)
         /\ owner' = IF err = "" THEN n ELSE owner
    /\ UNCHANGED <<kind, guardian, paused, balances, totalAssets, vaultEth, stack, otherVars>>

\* function assets() external view
assets == totalAssets

(***************************************************************************)
(* The stub contract contracts/SupraHedgeVault.sol: no pause flag, no      *)
(* guardian, no totalAssets.                                               *)
(***************************************************************************)
StubDepositErr(v) == IF ~(v > 0) THEN "ZERO" ELSE ""

\* The stub's deposit crediting the owner's balance instead of the sender's.
StubDepositAs_CreditsOwner(op, a, v) ==
    /\ kind = "stub"
    /\ CanCall(a)
    /\ vaultEth + v <= MaxEth
    /\ LET err == StubDepositErr(v) IN
         /\ last' = Called(op, err)
         /\ IF err = ""
              THEN /\ balances' = [balances EXCEPT ![owner] = @ + v]
                   /\ vaultEth' = vaultEth + v
              ELSE UNCHANGED <<balances, vaultEth>>
    /\ UNCHANGED <<kind, owner, guardian, paused, totalAssets, stack, otherVars>>

StubDepositAs(op, a, v) ==
    /\ kind = "stub"
    /\ CanCall(a)
    /\ vaultEth + v <= MaxEth
    /\ LET err == StubDepositErr(v) IN
         /\ last' = Called(op, err)
         /\ IF err = ""
              THEN /\ balances' = [balances EXCEPT ![a] = @ + v]
                   /\ vaultEth' = vaultEth + v
              ELSE UNCHANGED <<balances, vaultEth>>
    /\ UNCHANGED <<kind, owner, guardian, paused, totalAssets, stack, otherVars>>

stubDeposit(a, v) == StubDepositAs("deposit", a, v)

stubReceive(a, v) == StubDepositAs("receive", a, v)

\* The stub's withdraw testing the pooled ETH instead of the caller's balance, in
\* unchecked arithmetic.
StubWithdrawErr_Pool(a, amt) ==
    IF ~(amt > 0) THEN "ZERO"
    ELSE IF ~(vaultEth >= amt) THEN "INSUFFICIENT"
    ELSE ""

\* The revert reason of the stub's withdraw(amount) before the ETH transfer.
StubWithdrawErr(a, amt) ==
    IF ~(amt > 0) THEN "ZERO"
    ELSE IF ~(balances[a] >= amt) THEN "INSUFFICIENT"
    ELSE IF balances[a] - amt < 0 THEN "PANIC_UNDERFLOW"
    ELSE ""

stubWithdraw(a, amt) ==
    /\ kind = "stub"
    /\ CanCall(a)
    /\ LET err == StubWithdrawErr(a, amt) IN
         IF err = ""
           THEN /\ Len(stack) < MaxDepth
                /\ stack' = Append(stack, [sender |-> a, amount |-> amt, snap |-> Storage])
                /\ balances' = [balances EXCEPT ![a] = @ - amt]
                /\ vaultEth' = vaultEth - amt
                /\ UNCHANGED last
           ELSE /\ last' = Called("withdraw", err)
                /\ UNCHANGED <<balances, vaultEth, stack>>
    /\ UNCHANGED <<kind, owner, guardian, paused, totalAssets, otherVars>>

\* require(ok, "SEND_FAIL") when the call failed.
StubTransferFailed(f) ==
    /\ SetStorage(f.snap)
    /\ last' = Called("withdraw", "SEND_FAIL")

StubTransferOk(f) ==
    /\ UNCHANGED <<owner, guardian, paused, balances, totalAssets, vaultEth>>
    /\ last' = Called("withdraw", "")

stubWithdrawReturn(ok) ==
    /\ kind = "stub"
    /\ stack # <<>>
    /\ LET f == stack[Len(stack)] IN
         IF ok THEN StubTransferOk(f) ELSE StubTransferFailed(f)
    /\ stack' = SubSeq(stack, 1, Len(stack) - 1)
    /\ UNCHANGED <<kind, otherVars>>

StubSetOwnerErr(a, n) ==
    IF ~onlyOwner(a) THEN "NOT_OWNER"
    ELSE IF ~(n # Zero) THEN "ZERO_ADDR"
    ELSE ""

stubSetOwner(a, n) ==
    /\ kind = "stub"
    /\ CanCall(a)
    /\ LET err == StubSetOwnerErr(a, n) IN
         /\ last' = Called("setOwner", err)
         /\ owner' = IF err = "" THEN n ELSE owner
    /\ UNCHANGED <<kind, guardian, paused, balances, totalAssets, vaultEth, stack, otherVars>>

\* No contract deployed: the state of the vault variables in the specifications
\* of the front end.
VaultIdle ==
    /\ kind = "none"
    /\ owner = Zero
    /\ guardian = Zero
    /\ paused = FALSE
    /\ balances = [a \in Addrs |-> 0]
    /\ totalAssets = 0
    /\ vaultEth = 0
    /\ stack = <<>>
    /\ last = Called("none", "")

(***************************************************************************)
(* Part II: readPublicEnv                                                  *)
(***************************************************************************)
\* JavaScript values a source can hold for a key. t is the typeof of the value;
\* "nosource" is a source object that does not exist (process, process.env,
\* __ENV__ or __NEXT_PUBLIC__ undefined), "throw" a source whose access throws.
JsUndefined == [t |-> "undefined", v |-> ""]
JsString(s) == [t |-> "string", v |-> s]
JsNumber(s) == [t |-> "number", v |-> s]
NoSource == [t |-> "nosource", v |-> ""]
Throws == [t |-> "throw", v |-> ""]

EnvValues == {JsUndefined, NoSource, Throws, JsString(""), JsString("0xAbC"), JsString("0xDeF"),
              JsNumber("7")}

Sources == {"process.env", "__ENV__", "__NEXT_PUBLIC__", "globalThis"}

\* Outcomes of a block of readPublicEnv.
Return(x) == [k |-> "return", val |-> x]
FallThrough == [k |-> "fall", val |-> JsUndefined]
Thrown == [k |-> "throw", val |-> JsUndefined]

\* The test without "&& x.length".
NonEmptyString_NoLength(x) == x.t = "string"

\* typeof x === 'string' && x.length
NonEmptyString(x) == x.t = "string" /\ x.v # ""

\* JavaScript truthiness of the values of EnvValues.
Truthy(x) == (x.t = "string" /\ x.v # "") \/ (x.t = "number" /\ x.v # "0")

\* catch { }
Catch(r) == IF r.k = "throw" THEN FallThrough ELSE r

\* Lines 40-46: the body of the first try block.
ProcessBlock(src) ==
    LET v == src["process.env"] IN
    IF v.t = "nosource" THEN FallThrough
    ELSE IF v.t = "throw" THEN Thrown
    ELSE IF NonEmptyString(v) THEN Return(v)
    ELSE FallThrough

\* One lookup of the second try block: g?.__X__?.[key], tested and returned.
Lookup(v, rest) ==
    IF v.t = "throw" THEN Thrown
    ELSE IF v.t # "nosource" /\ Truthy(v) /\ NonEmptyString(v) THEN Return(v)
    ELSE rest

\* Lines 50-56: the body of the second try block.
GlobalBlock(src) ==
    Lookup(src["__ENV__"], Lookup(src["__NEXT_PUBLIC__"], Lookup(src["globalThis"], FallThrough)))

\* function readPublicEnv(key): the value returned, or Thrown if the call throws.
readPublicEnv(src) ==
    LET r1 == Catch(ProcessBlock(src)) IN
    IF r1.k = "return" THEN r1
    ELSE LET r2 == Catch(GlobalBlock(src)) IN
         IF r2.k = "return" THEN r2
         ELSE Return(JsUndefined)

NotCalled == [k |-> "none", val |-> JsUndefined]

EnvIdle ==
    /\ envSrc = [s \in Sources |-> NoSource]
    /\ envResult = NotCalled

EnvInit ==
    /\ envSrc \in [Sources -> EnvValues]
    /\ envResult = NotCalled

\* A call readPublicEnv(key) in the current environment.
ReadEnv ==
    /\ envResult' = readPublicEnv(envSrc)
    /\ UNCHANGED <<envSrc, vaultVars, pageVars>>

\* RootLayout: window.__ENV__ = { KEY: process.env.KEY || '' } on the client.
RootLayout(v) ==
    /\ v.t \in {"string", "undefined"}
    /\ envSrc' = [envSrc EXCEPT !["__ENV__"] = IF Truthy(v) THEN v ELSE JsString("")]
    /\ envResult' = NotCalled
    /\ UNCHANGED <<vaultVars, pageVars>>


(***************************************************************************)
(* Part III: the app page                                                  *)
(***************************************************************************)
\* Bounds of the page model.
\* Transactions that can wait in the mempool.
MaxPending == 1
\* Transactions the chain mines in a behaviour.
MaxMined == 1
\* Runs of the read effect in flight.
MaxReads == 2
\* Runs of onDeposit / onWithdraw in flight.
MaxFlows == 2

\* undefined, for the optional bigint, address and wallet-client states.
Undefined == -1
NoAddr == "undefined"
NoWallet == "undefined"
NoError == "undefined"
WalletClient == "walletClient"

\* The accounts the injected wallet can expose, with what the chain holds for
\* each: vault shares, USDC balance and the USDC allowance given to the vault
\* before the page is opened.
Accounts == {"0xa", "0xb"}
ChainShares == [a \in Accounts |-> IF a = "0xa" THEN 7 ELSE 0]
ChainUsdc == [a \in Accounts |-> IF a = "0xa" THEN 4000000 ELSE 0]
InitialAllowance == [a \in Accounts |-> IF a = "0xa" THEN 10000000 ELSE 0]
ChainTotalAssets == 5000000
TokenDecimals == {6}

\* String.prototype.toLowerCase on the values the address variables can hold.
ToLowerCase(x) == CASE x = "0xAbC" -> "0xabc" [] x = "0xDeF" -> "0xdef" [] OTHER -> x

\* readPublicEnv(key) ?? '' : the string, or '' for undefined.
OrEmpty(r) == IF r.val.t = "string" THEN r.val.v ELSE ""

\* The environments a deployment gives the page: in the browser process is not
\* defined and RootLayout has injected window.__ENV__ with the value or ''.
PageEnvs(addr) == {[s \in Sources |-> IF s = "__ENV__" THEN v ELSE NoSource] :
                      v \in {JsString(""), JsString(addr)}}

\* The test with the USDC address left out.
hasConfig_VaultOnly == VAULT_ADDR # ""

\* Boolean(VAULT_ADDR && USDC_ADDR)
hasConfig == VAULT_ADDR # "" /\ USDC_ADDR # ""

\* const connected = !!address
connected == address # NoAddr

(***************************************************************************)
(* parseUnits(value, decimals) of viem on the characters of value.         *)
(***************************************************************************)
Digits == {"0", "1", "2", "3", "4", "5", "6", "7", "8", "9"}

DigitVal(c) == CASE c = "0" -> 0 [] c = "1" -> 1 [] c = "2" -> 2 [] c = "3" -> 3 [] c = "4" -> 4
                 [] c = "5" -> 5 [] c = "6" -> 6 [] c = "7" -> 7 [] c = "8" -> 8 [] c = "9" -> 9

RECURSIVE Pow10(_)
Pow10(d) == IF d = 0 THEN 1 ELSE 10 * Pow10(d - 1)

\* BigInt of a sequence of digits; BigInt('') is 0n.
RECURSIVE IntOf(_)
IntOf(cs) == IF cs = <<>> THEN 0
             ELSE 10 * IntOf(SubSeq(cs, 1, Len(cs) - 1)) + DigitVal(cs[Len(cs)])

\* Position of the first '.', or 0.
DotPos(cs) == IF \E i \in 1..Len(cs) : cs[i] = "."
              THEN CHOOSE i \in 1..Len(cs) : cs[i] = "." /\ \A j \in 1..(i - 1) : cs[j] # "."
              ELSE 0

Unsigned(cs) == IF cs # <<>> /\ cs[1] = "-" THEN Tail(cs) ELSE cs

\* /^(-?)([0-9]*)\.?([0-9]*)$/
IsDecimalNumber(cs) ==
    LET u == Unsigned(cs) IN
    /\ \A i \in 1..Len(u) : u[i] \in Digits \cup {"."}
    /\ Cardinality({i \in 1..Len(u) : u[i] = "."}) <= 1

\* fraction.replace(/(0+)$/, '')
RECURSIVE TrimZeros(_)
TrimZeros(cs) == IF cs # <<>> /\ cs[Len(cs)] = "0" THEN TrimZeros(SubSeq(cs, 1, Len(cs) - 1)) ELSE cs

\* The value parseUnits returns for a valid decimal number: the fraction is padded
\* to d digits, or cut to d digits and rounded half up on the digit after them.
ParseValid(cs, d) ==
    LET u == Unsigned(cs)
        dot == DotPos(u)
        integer == IF dot = 0 THEN u ELSE SubSeq(u, 1, dot - 1)
        fraction == IF dot = 0 THEN <<>> ELSE TrimZeros(SubSeq(u, dot + 1, Len(u)))
        kept == IF Len(fraction) > d THEN SubSeq(fraction, 1, d) ELSE fraction
        up == IF Len(fraction) > d /\ DigitVal(fraction[d + 1]) >= 5 THEN 1 ELSE 0
        mag == IntOf(integer) * Pow10(d) + IntOf(kept) * Pow10(d - Len(kept)) + up
    IN IF u # cs THEN 0 - mag ELSE mag

ParseError == [ok |-> FALSE, val |-> 0]

\* parseUnits(value, decimals): the bigint, or the InvalidDecimalNumberError thrown.
parseUnits(cs, d) == IF IsDecimalNumber(cs) THEN [ok |-> TRUE, val |-> ParseValid(cs, d)] ELSE ParseError

\* amount || '0'
OrZero(cs) == IF cs = <<>> THEN <<"0">> ELSE cs

(***************************************************************************)
(* Number.prototype.toFixed(2) of the chips.                               *)
(***************************************************************************)
DigitChar(n) == CASE n = 0 -> "0" [] n = 1 -> "1" [] n = 2 -> "2" [] n = 3 -> "3" [] n = 4 -> "4"
                  [] n = 5 -> "5" [] n = 6 -> "6" [] n = 7 -> "7" [] n = 8 -> "8" [] n = 9 -> "9"

RECURSIVE IntToChars(_)
IntToChars(n) == IF n < 10 THEN <<DigitChar(n)>> ELSE Append(IntToChars(n \div 10), DigitChar(n % 10))

\* ((Number(usdcBal) / 10 ** decimals) * (p / 100)).toFixed(2)
ChipAmount(bal, d, p) ==
    LET cents == (2 * bal * p + Pow10(d)) \div (2 * Pow10(d)) IN
    IntToChars(cents \div 100) \o <<".", DigitChar((cents \div 10) % 10), DigitChar(cents % 10)>>

\* What the user types into the amount input.
AmountInputs == {<<>>, <<"5">>, <<"x">>, <<"9", ".", "9", "9", "9", "9", "9", "9", "5">>}

\* Positions of the slider (min 1, max 100).
SliderValues == {1, 100}

(***************************************************************************)
(* The page: state, read effect, inputs                                    *)
(***************************************************************************)
\* The page before it is rendered: the state of the page variables in the
\* specifications of the vault and of readPublicEnv.
PageIdle ==
    /\ VAULT_ADDR = ""
    /\ USDC_ADDR = ""
    /\ wallet = NoWallet
    /\ address = NoAddr
    /\ decimals = 6
    /\ tvl = Undefined
    /\ userShares = Undefined
    /\ usdcBal = Undefined
    /\ amount = <<"1", "0", "0", "0">>
    /\ withdrawPct = 25
    /\ busy = FALSE
    /\ reads = <<>>
    /\ flows = <<>>
    /\ tokenDecimals = 6
    /\ chainAllowance = InitialAllowance
    /\ mempool = <<>>
    /\ mined = 0
    /\ ethereum = TRUE
    /\ walletError = NoError
    /\ chainId = Undefined
    /\ connects = <<>>

\* The read effect, run when the page mounts and when address changes: with no
\* config it returns at once, otherwise it awaits the decimals read.
useEffectReads(rs, addr) ==
    IF ~hasConfig THEN rs ELSE Append(rs, [addr |-> addr, pc |-> "decimals"])

\* The page as connect leaves it: the module constants are read from the
\* environment, the hook holds any wallet and address, the effect run of the mount
\* (address undefined) is in flight and, when an address is set, so is the run
\* that the change of address started.
PageInit ==
    /\ VAULT_ADDR \in {ToLowerCase(OrEmpty(readPublicEnv(e))) : e \in PageEnvs("0xAbC")}
    /\ USDC_ADDR \in {ToLowerCase(OrEmpty(readPublicEnv(e))) : e \in PageEnvs("0xDeF")}
    /\ wallet \in {NoWallet, WalletClient}
    /\ address \in {NoAddr} \cup Accounts
    /\ decimals = 6
    /\ tvl = Undefined
    /\ userShares = Undefined
    /\ usdcBal = Undefined
    /\ amount = <<"1", "0", "0", "0">>
    /\ withdrawPct = 25
    /\ busy = FALSE
    /\ reads = IF address = NoAddr THEN useEffectReads(<<>>, NoAddr)
               ELSE useEffectReads(useEffectReads(<<>>, NoAddr), address)
    /\ flows = <<>>
    /\ tokenDecimals \in TokenDecimals
    /\ chainAllowance = InitialAllowance
    /\ mempool = <<>>
    /\ mined = 0
    /\ ethereum = TRUE
    /\ walletError = NoError
    /\ chainId = Undefined
    /\ connects = <<>>

\* s without its i-th element.
Remove(s, i) == SubSeq(s, 1, i - 1) \o SubSeq(s, i + 1, Len(s))

hookVars == <<wallet, address>>
inputVars == <<amount, withdrawPct>>
readVars == <<decimals, tvl, userShares, usdcBal>>
chainVars == <<tokenDecimals, chainAllowance, mempool, mined>>
connectVars == <<ethereum, walletError, chainId, connects>>
constVars == <<VAULT_ADDR, USDC_ADDR, vaultVars, envVars, connectVars>>

\* The decimals read resolved: setDecimals(dec), then await the totalAssets read.
ReadDecimals(i) ==
    /\ i \in 1..Len(reads)
    /\ reads[i].pc = "decimals"
    /\ decimals' = tokenDecimals
    /\ reads' = [reads EXCEPT ![i].pc = "totalAssets"]
    /\ UNCHANGED <<tvl, userShares, usdcBal, hookVars, inputVars, busy, flows, chainVars, constVars>>

\* The totalAssets read resolved: setTvl(ta); with an address the two balanceOf
\* reads are awaited, without one the user values are cleared.
ReadTotalAssets(i) ==
    /\ i \in 1..Len(reads)
    /\ reads[i].pc = "totalAssets"
    /\ tvl' = ChainTotalAssets
    /\ IF reads[i].addr # NoAddr
         THEN /\ reads' = [reads EXCEPT ![i].pc = "user"]
              /\ UNCHANGED <<usdcBal, userShares>>
         ELSE /\ reads' = Remove(reads, i)
              /\ usdcBal' = Undefined
              /\ userShares' = Undefined
    /\ UNCHANGED <<decimals, hookVars, inputVars, busy, flows, chainVars, constVars>>

\* Promise.all of the two balanceOf reads resolved: setUsdcBal(bal); setUserShares(shares).
ReadUser(i) ==
    /\ i \in 1..Len(reads)
    /\ reads[i].pc = "user"
    /\ usdcBal' = ChainUsdc[reads[i].addr]
    /\ userShares' = ChainShares[reads[i].addr]
    /\ reads' = Remove(reads, i)
    /\ UNCHANGED <<decimals, tvl, hookVars, inputVars, busy, flows, chainVars, constVars>>

\* A read rejected: catch (e) { console.warn('read error', e) }.
ReadError(i) ==
    /\ i \in 1..Len(reads)
    /\ reads' = Remove(reads, i)
    /\ UNCHANGED <<readVars, hookVars, inputVars, busy, flows, chainVars, constVars>>

\* disconnect, from the AccountPill that is rendered while connected; the change
\* of address runs the read effect again.
disconnect ==
    /\ connected
    /\ Len(reads) < MaxReads
    /\ address' = NoAddr
    /\ wallet' = NoWallet
    /\ reads' = useEffectReads(reads, NoAddr)
    /\ UNCHANGED <<readVars, inputVars, busy, flows, chainVars, constVars>>

\* AmountInput: disabled={!connected || busy}, onChange={setAmount}.
AmountInput(cs) ==
    /\ ~(~connected \/ busy)
    /\ amount' = cs
    /\ UNCHANGED <<withdrawPct, readVars, hookVars, busy, reads, flows, chainVars, constVars>>

\* Chip p%: disabled={!connected || busy}.
Chip(p) ==
    /\ ~(~connected \/ busy)
    /\ amount' = IF connected /\ usdcBal # Undefined THEN ChipAmount(usdcBal, decimals, p) ELSE amount
    /\ UNCHANGED <<withdrawPct, readVars, hookVars, busy, reads, flows, chainVars, constVars>>

\* Slider: disabled={!connected || busy}, onChange={setWithdrawPct}.
Slider(v) ==
    /\ ~(~connected \/ busy)
    /\ withdrawPct' = v
    /\ UNCHANGED <<amount, readVars, hookVars, busy, reads, flows, chainVars, constVars>>

(***************************************************************************)
(* The page: onDeposit and onWithdraw                                      *)
(***************************************************************************)
\* A run of a handler that awaits a call. assets is the amount of the run (the
\* shares of a redeem) and args the args of its vault call; dec / shares0 / pct0
\* are the state the handler read when it started, allowance is what the
\* allowance read returned, log the calls issued and the results awaited so far.
Flow(k, pc, arg, args, log) ==
    [kind |-> k, pc |-> pc, assets |-> arg, args |-> args, account |-> address, dec |-> decimals,
     shares0 |-> userShares, pct0 |-> withdrawPct, allowance |-> Undefined, log |-> log]

\* The Deposit button without busy in its disabled attribute.
DepositDisabled_NoBusy == ~connected \/ ~hasConfig

\* PrimaryButton Deposit: disabled={!connected || busy || !hasConfig}.
DepositDisabled == ~connected \/ busy \/ ~hasConfig

\* PrimaryButton Withdraw: disabled={!connected || busy || !userShares || !hasConfig}.
WithdrawDisabled == ~connected \/ busy \/ ~(userShares > 0) \/ ~hasConfig

\* if (allowance < assets) with <= in place of <.
NeedsApprove_OrEqual(allowance, arg) == allowance <= arg

\* if (allowance < assets)
NeedsApprove(allowance, arg) == allowance < arg

\* The shares with the division done first.
RedeemShares_DivideFirst(shares, pct) == (shares \div 100) * pct

\* (userShares * BigInt(withdrawPct)) / BigInt(100)
RedeemShares(shares, pct) == (shares * pct) \div 100

\* onDeposit up to its first await: the guard, setBusy(true), parseUnits, and the
\* allowance read; a parseUnits that throws runs finally { setBusy(false) }.
onDeposit ==
    /\ Len(flows) < MaxFlows
    /\ IF wallet = NoWallet \/ ~connected \/ ~hasConfig
         THEN UNCHANGED <<busy, flows>>
         ELSE LET parsed == parseUnits(OrZero(amount), decimals) IN
              IF ~parsed.ok
                THEN /\ busy' = FALSE
                     /\ UNCHANGED flows
                ELSE /\ busy' = TRUE
                     /\ flows' = Append(flows, Flow("deposit", "allowance", parsed.val,
                                                <<parsed.val, address>>, <<"allowance">>))
    /\ UNCHANGED <<readVars, hookVars, inputVars, reads, chainVars, constVars>>

\* A click on the Deposit button.
ClickDeposit == ~DepositDisabled /\ onDeposit

\* The allowance read resolved: approve when the allowance is below assets,
\* otherwise the vault deposit.
AllowanceResolved(i) ==
    /\ i \in 1..Len(flows)
    /\ flows[i].pc = "allowance"
    /\ LET v == chainAllowance[flows[i].account]
           next == IF NeedsApprove(v, flows[i].assets) THEN "approve" ELSE "deposit" IN
       flows' = [flows EXCEPT ![i].allowance = v, ![i].pc = next,
                              ![i].log = @ \o <<"allowance:ok", next>>]
    /\ UNCHANGED <<busy, readVars, hookVars, inputVars, reads, chainVars, constVars>>

\* writeContract approve resolved with the hash of the submitted transaction;
\* the vault deposit is called next.
ApproveResolved(i) ==
    /\ i \in 1..Len(flows)
    /\ flows[i].pc = "approve"
    /\ Len(mempool) < MaxPending
    /\ mempool' = Append(mempool, [fn |-> "approve", account |-> flows[i].account,
                                   arg |-> flows[i].assets])
    /\ flows' = [flows EXCEPT ![i].pc = "deposit", ![i].log = @ \o <<"approve:ok", "deposit">>]
    /\ UNCHANGED <<busy, readVars, hookVars, inputVars, reads, tokenDecimals, chainAllowance, mined, constVars>>

\* writeContract deposit resolved (a uint256 argument cannot be negative):
\* finally { setBusy(false) }.
DepositResolved(i) ==
    /\ i \in 1..Len(flows)
    /\ flows[i].pc = "deposit"
    /\ flows[i].assets >= 0
    /\ Len(mempool) < MaxPending
    /\ mempool' = Append(mempool, [fn |-> "deposit", account |-> flows[i].account,
                                   arg |-> flows[i].args[1]])
    /\ flows' = Remove(flows, i)
    /\ busy' = FALSE
    /\ UNCHANGED <<readVars, hookVars, inputVars, reads, tokenDecimals, chainAllowance, mined, constVars>>

\* The rejection of a handler written without finally { setBusy(false) }.
CallRejected_NoFinally(i) ==
    /\ i \in 1..Len(flows)
    /\ flows' = Remove(flows, i)
    /\ UNCHANGED <<busy, readVars, hookVars, inputVars, reads, chainVars, constVars>>

\* The awaited call of a run rejected (RPC error, the user refused in the wallet,
\* an argument that cannot be encoded): finally { setBusy(false) }.
CallRejected(i) ==
    /\ i \in 1..Len(flows)
    /\ flows' = Remove(flows, i)
    /\ busy' = FALSE
    /\ UNCHANGED <<readVars, hookVars, inputVars, reads, chainVars, constVars>>

\* onWithdraw up to its await: the guard, setBusy(true) and the redeem call.
onWithdraw ==
    /\ Len(flows) < MaxFlows
    /\ IF wallet = NoWallet \/ ~connected \/ ~hasConfig \/ ~(userShares > 0)
         THEN UNCHANGED <<busy, flows>>
         ELSE LET shares == RedeemShares(userShares, withdrawPct) IN
              /\ busy' = TRUE
              /\ flows' = Append(flows, Flow("withdraw", "redeem", shares,
                                             <<shares, address, address>>, <<"redeem">>))
    /\ UNCHANGED <<readVars, hookVars, inputVars, reads, chainVars, constVars>>

\* A click on the Withdraw button.
ClickWithdraw == ~WithdrawDisabled /\ onWithdraw

\* writeContract redeem resolved: finally { setBusy(false) }.
RedeemResolved(i) ==
    /\ i \in 1..Len(flows)
    /\ flows[i].pc = "redeem"
    /\ Len(mempool) < MaxPending
    /\ mempool' = Append(mempool, [fn |-> "redeem", account |-> flows[i].account,
                                   arg |-> flows[i].args[1]])
    /\ flows' = Remove(flows, i)
    /\ busy' = FALSE
    /\ UNCHANGED <<readVars, hookVars, inputVars, reads, tokenDecimals, chainAllowance, mined, constVars>>

\* The chain mines the oldest pending transaction: approve sets the allowance,
\* a deposit spends it (or reverts when it is too small), a redeem spends none.
Mine ==
    /\ mempool # <<>>
    /\ mined < MaxMined
    /\ mined' = mined + 1
    /\ LET tx == Head(mempool) IN
       chainAllowance' =
          IF tx.fn = "approve" THEN [chainAllowance EXCEPT ![tx.account] = tx.arg]
          ELSE IF tx.fn = "deposit" /\ chainAllowance[tx.account] >= tx.arg
               THEN [chainAllowance EXCEPT ![tx.account] = @ - tx.arg]
          ELSE chainAllowance
    /\ mempool' = Tail(mempool)
    /\ UNCHANGED <<busy, flows, readVars, hookVars, inputVars, reads, tokenDecimals, constVars>>

(***************************************************************************)
(* The wallet hook: connect and the requests of the injected provider      *)
(***************************************************************************)
\* Runs of connect that can await the provider at once.
MaxConnects == 2

\* What eth_chainId returns, and parseInt(chainIdStr, 16) of it.
ProviderChainId == "0x1"
ParseHex(x) == CASE x = "0x1" -> 1 [] OTHER -> Undefined

\* What eth_requestAccounts resolves with: the first account of the array, or
\* undefined for an empty array.
RequestedAccounts == Accounts \cup {NoAddr}

\* connect up to its first await: setError(undefined); without an injected
\* provider setError('No injected wallet found') and return; otherwise
\* setWallet(createWalletClient(...)) and the eth_requestAccounts request.
connect ==
    /\ IF ~ethereum
         THEN /\ walletError' = "No injected wallet found"
              /\ UNCHANGED <<wallet, connects>>
         ELSE /\ Len(connects) < MaxConnects
              /\ walletError' = NoError
              /\ wallet' = WalletClient
              /\ connects' = Append(connects, [pc |-> "accounts"])
    /\ UNCHANGED <<address, ethereum, chainId, readVars, inputVars, busy, reads, flows, chainVars,
                   VAULT_ADDR, USDC_ADDR, vaultVars, envVars>>

\* A click on the ConnectButton, which is rendered while not connected.
ClickConnect == ~connected /\ connect

\* eth_requestAccounts resolved: setAddress(addr), then the eth_chainId request;
\* a change of address runs the read effect again.
RequestAccountsResolved(i, addr) ==
    /\ i \in 1..Len(connects)
    /\ connects[i].pc = "accounts"
    /\ address' = addr
    /\ IF addr # address
         THEN /\ Len(reads) < MaxReads
              /\ reads' = useEffectReads(reads, addr)
         ELSE UNCHANGED reads
    /\ connects' = [connects EXCEPT ![i].pc = "chainId"]
    /\ UNCHANGED <<wallet, ethereum, walletError, chainId, readVars, inputVars, busy, flows, chainVars,
                   VAULT_ADDR, USDC_ADDR, vaultVars, envVars>>

\* eth_requestAccounts rejected: the await throws out of connect.
RequestAccountsRejected(i) ==
    /\ i \in 1..Len(connects)
    /\ connects[i].pc = "accounts"
    /\ connects' = Remove(connects, i)
    /\ UNCHANGED <<hookVars, ethereum, walletError, chainId, readVars, inputVars, busy, reads, flows,
                   chainVars, VAULT_ADDR, USDC_ADDR, vaultVars, envVars>>

\* eth_chainId resolved: setChainId(parseInt(chainIdStr, 16)).
ChainIdResolved(i) ==
    /\ i \in 1..Len(connects)
    /\ connects[i].pc = "chainId"
    /\ chainId' = ParseHex(ProviderChainId)
    /\ connects' = Remove(connects, i)
    /\ UNCHANGED <<hookVars, ethereum, walletError, readVars, inputVars, busy, reads, flows,
                   chainVars, VAULT_ADDR, USDC_ADDR, vaultVars, envVars>>

\* eth_chainId rejected: catch { }.
ChainIdRejected(i) ==
    /\ i \in 1..Len(connects)
    /\ connects[i].pc = "chainId"
    /\ connects' = Remove(connects, i)
    /\ UNCHANGED <<hookVars, ethereum, walletError, chainId, readVars, inputVars, busy, reads, flows,
                   chainVars, VAULT_ADDR, USDC_ADDR, vaultVars, envVars>>

\* The page when it is first rendered: nothing connected, the read effect of
\* the mount in flight when the config is present.
HookInit ==
    /\ VAULT_ADDR \in {ToLowerCase(OrEmpty(readPublicEnv(e))) : e \in PageEnvs("0xAbC")}
    /\ USDC_ADDR \in {ToLowerCase(OrEmpty(readPublicEnv(e))) : e \in PageEnvs("0xDeF")}
    /\ wallet = NoWallet
    /\ address = NoAddr
    /\ decimals = 6
    /\ tvl = Undefined
    /\ userShares = Undefined
    /\ usdcBal = Undefined
    /\ amount = <<"1", "0", "0", "0">>
    /\ withdrawPct = 25
    /\ busy = FALSE
    /\ reads = useEffectReads(<<>>, NoAddr)
    /\ flows = <<>>
    /\ tokenDecimals \in TokenDecimals
    /\ chainAllowance = InitialAllowance
    /\ mempool = <<>>
    /\ mined = 0
    /\ ethereum \in BOOLEAN
    /\ walletError = NoError
    /\ chainId = Undefined
    /\ connects = <<>>

InitHook == VaultIdle /\ EnvIdle /\ HookInit

NextHook ==
    \/ ClickConnect
    \/ \E i \in 1..MaxConnects, addr \in RequestedAccounts : RequestAccountsResolved(i, addr)
    \/ \E i \in 1..MaxConnects : RequestAccountsRejected(i)
    \/ \E i \in 1..MaxConnects : ChainIdResolved(i)
    \/ \E i \in 1..MaxConnects : ChainIdRejected(i)
    \/ disconnect
    \/ \E i \in 1..MaxReads : ReadDecimals(i)
    \/ \E i \in 1..MaxReads : ReadTotalAssets(i)
    \/ \E i \in 1..MaxReads : ReadUser(i)
    \/ \E i \in 1..MaxReads : ReadError(i)

SpecHook == InitHook /\ [][NextHook]_vars

\* The awaited call of run i settles: it resolves or it rejects.
Settle(i) ==
    \/ AllowanceResolved(i)
    \/ ApproveResolved(i)
    \/ DepositResolved(i)
    \/ RedeemResolved(i)
    \/ CallRejected(i)

InitPage == VaultIdle /\ EnvIdle /\ PageInit

NextPage ==
    \/ \E i \in 1..MaxReads : ReadDecimals(i)
    \/ \E i \in 1..MaxReads : ReadTotalAssets(i)
    \/ \E i \in 1..MaxReads : ReadUser(i)
    \/ \E i \in 1..MaxReads : ReadError(i)
    \/ disconnect
    \/ \E cs \in AmountInputs : AmountInput(cs)
    \/ \E p \in {25, 50, 75, 100} : Chip(p)
    \/ \E v \in SliderValues : Slider(v)
    \/ ClickDeposit
    \/ \E i \in 1..MaxFlows : AllowanceResolved(i)
    \/ \E i \in 1..MaxFlows : ApproveResolved(i)
    \/ \E i \in 1..MaxFlows : DepositResolved(i)
    \/ \E i \in 1..MaxFlows : CallRejected(i)
    \/ ClickWithdraw
    \/ \E i \in 1..MaxFlows : RedeemResolved(i)
    \/ Mine

SpecPage == InitPage /\ [][NextPage]_vars

\* The page where every pending call of a handler eventually settles.
SpecPageFair == SpecPage /\ WF_vars(\E i \in 1..MaxFlows : Settle(i))

Init == VaultInit /\ EnvIdle /\ PageIdle

Next ==
    \/ \E a \in Addrs, v \in 0..MaxEth : deposit(a, v)
    \/ \E a \in Addrs, v \in 0..MaxEth : receive(a, v)
    \/ \E a \in Addrs, amt \in 0..MaxEth : withdraw(a, amt)
    \/ \E ok \in BOOLEAN : withdrawReturn(ok)
    \/ \E a \in Addrs, p \in BOOLEAN : setPaused(a, p)
    \/ \E a \in Addrs, n \in Addrs \cup {Zero} : setGuardian(a, n)
    \/ \E a \in Addrs, n \in Addrs \cup {Zero} : setOwner(a, n)
    \/ \E a \in Addrs, v \in 0..MaxEth : stubDeposit(a, v)
    \/ \E a \in Addrs, v \in 0..MaxEth : stubReceive(a, v)
    \/ \E a \in Addrs, amt \in 0..MaxEth : stubWithdraw(a, amt)
    \/ \E ok \in BOOLEAN : stubWithdrawReturn(ok)
    \/ \E a \in Addrs, n \in Addrs \cup {Zero} : stubSetOwner(a, n)

Spec == Init /\ [][Next]_vars

InitEnv == VaultIdle /\ EnvInit /\ PageIdle

NextEnv ==
    \/ ReadEnv
    \/ \E v \in EnvValues : RootLayout(v)

SpecEnv == InitEnv /\ [][NextEnv]_vars

(***************************************************************************)
(* Properties of the vault (specification Spec)                            *)
(***************************************************************************)
Ledger == <<balances, totalAssets, vaultEth>>

\* The innermost pending withdraw.
Top == stack[Len(stack)]

\* C1: in the pausable vault, a call to deposit(), withdraw(amount) or a plain ETH
\* transfer made while paused is true reverts with VAULT_PAUSED and leaves every
\* balance, totalAssets and the vault's ETH unchanged.
C1_PausedCallsRevert ==
    [][\A a \in Addrs, v \in 0..MaxEth :
          (paused /\ (deposit(a, v) \/ receive(a, v) \/ withdraw(a, v)))
          => /\ UNCHANGED <<Ledger, stack>>
             /\ last'.op \in {"deposit", "receive", "withdraw"}
             /\ last'.err = "VAULT_PAUSED"]_vars

\* A withdraw reverted by the pause flag while the vault holds funds.
C1_Witness ==
    /\ paused
    /\ totalAssets > 0
    /\ last = Called("withdraw", "VAULT_PAUSED")

\* C2: paused changes only by a setPaused call of the current owner or guardian
\* (or by the rollback of such a call inside a reverted withdraw); a setPaused
\* call of any other address reverts and leaves paused unchanged; the owner and
\* the guardian can each set it to TRUE and to FALSE.
C2_PauseAuthority ==
    [][/\ \A a \in Addrs, p \in BOOLEAN :
            setPaused(a, p) =>
                IF a = owner \/ a = guardian
                  THEN paused' = p /\ last' = Called("setPaused", "")
                  ELSE paused' = paused /\ last' = Called("setPaused", "NOT_AUTHORIZED")
       /\ paused' # paused =>
            \/ \E a \in {owner, guardian} : setPaused(a, paused')
            \/ withdrawReturn(FALSE) /\ paused' = Top.snap.paused]_vars

\* The guardian, who is not the owner, has unpaused a vault that was paused, and a
\* third address was then refused.
C2_Witness ==
    /\ kind = "pausable"
    /\ guardian \in Addrs
    /\ guardian # owner
    /\ last = Called("setPaused", "NOT_AUTHORIZED")
    /\ paused

\* C3: withdraw(amount) by a caller whose balance is below amount reverts with
\* every balance, totalAssets and the vault's ETH unchanged, in both contracts,
\* and no balance is ever below zero.
C3_InsufficientBalanceReverts ==
    /\ [][\A a \in Addrs, amt \in 0..MaxEth :
             (balances[a] < amt /\ (withdraw(a, amt) \/ stubWithdraw(a, amt)))
             => /\ UNCHANGED <<Ledger, stack>>
                /\ last'.op = "withdraw"
                /\ last'.err # ""]_vars
    /\ [](\A a \in Addrs : balances[a] >= 0)

\* The stub refused a withdraw above the caller's balance while it held ETH of
\* somebody else.
C3_Witness ==
    /\ kind = "stub"
    /\ vaultEth > 0
    /\ last = Called("withdraw", "INSUFFICIENT")

\* C4: when the ETH transfer inside withdraw fails, the caller's balance,
\* every other balance, totalAssets and the vault's ETH are what they were before
\* the withdraw call, in both contracts: a pending withdraw carries the state in
\* which it was called, and the failed transfer puts that state back.
C4_FailedTransferReverts ==
    /\ [][(stack # <<>> /\ (withdrawReturn(FALSE) \/ stubWithdrawReturn(FALSE)))
            => /\ balances' = Top.snap.balances
               /\ totalAssets' = Top.snap.totalAssets
               /\ vaultEth' = Top.snap.vaultEth
               /\ last'.op = "withdraw"
               /\ last'.err \in {"ETH_TRANSFER_FAILED", "SEND_FAIL"}]_vars
    /\ [][Len(stack') > Len(stack)
            => /\ stack'[Len(stack')].snap.balances = balances
               /\ stack'[Len(stack')].snap.totalAssets = totalAssets
               /\ stack'[Len(stack')].snap.vaultEth = vaultEth]_vars

\* A withdraw of the pausable vault has failed in its transfer, with funds in it.
C4_Witness ==
    /\ last = Called("withdraw", "ETH_TRANSFER_FAILED")
    /\ stack = <<>>
    /\ totalAssets > 0

\* C5: in the pausable vault totalAssets, which assets() returns, is the sum of
\* the balances of all addresses.
C5_TotalIsSumOfBalances ==
    kind = "pausable" => /\ totalAssets = SumOver(balances, Addrs)
                         /\ assets = SumOver(balances, Addrs)

\* Two depositors, after a withdraw whose transfer failed.
C5_Witness ==
    /\ kind = "pausable"
    /\ \E a, b \in Addrs : a # b /\ balances[a] > 0 /\ balances[b] > 0
    /\ last = Called("withdraw", "ETH_TRANSFER_FAILED")

\* C12: setOwner and setGuardian (and the stub's setOwner) succeed exactly when
\* the caller is the current owner and the new address is not zero; every other
\* call reverts with owner and guardian unchanged; after a successful setOwner to
\* another address the old owner fails onlyOwner; and owner and guardian change
\* in no other way than by these calls or the rollback of a reverted withdraw.
C12_AdminGuarded ==
    [][/\ last'.op \in {"setOwner", "setGuardian"} =>
            \A a \in Addrs, n \in Addrs \cup {Zero} :
               /\ (setOwner(a, n) \/ stubSetOwner(a, n)) =>
                     IF a = owner /\ n # Zero
                       THEN /\ owner' = n /\ guardian' = guardian /\ last'.err = ""
                            /\ n # a => \A m \in Addrs : SetAddressErr(a, m)' = "NOT_OWNER"
                       ELSE /\ owner' = owner /\ guardian' = guardian /\ last'.err # ""
               /\ setGuardian(a, n) =>
                     IF a = owner /\ n # Zero
                       THEN guardian' = n /\ owner' = owner /\ last'.err = ""
                       ELSE guardian' = guardian /\ owner' = owner /\ last'.err # ""
       /\ owner' # owner =>
            \/ setOwner(owner, owner') \/ stubSetOwner(owner, owner')
            \/ (stack # <<>> /\ owner' = Top.snap.owner /\ last'.err # "")
       /\ guardian' # guardian =>
            \/ setGuardian(owner, guardian')
            \/ (stack # <<>> /\ guardian' = Top.snap.guardian /\ last'.err # "")]_vars

\* A successful setOwner on a vault that holds funds and has a guardian who is
\* not the new owner.
C12_Witness ==
    /\ kind = "pausable"
    /\ guardian \in Addrs
    /\ guardian # owner
    /\ totalAssets > 0
    /\ stack = <<>>
    /\ last = Called("setOwner", "")

\* C13: a successful deposit (or plain transfer) of v by a adds exactly v to
\* balances[a], a successful withdraw(amount) by a takes exactly amount from
\* balances[a], and both leave every other balance, owner, guardian and paused
\* unchanged, in both contracts; setPaused, setOwner and setGuardian leave every
\* balance and totalAssets unchanged.
C13_OnlyCallersBalance ==
    [][/\ (last'.op \in {"deposit", "receive"} \/ Len(stack') > Len(stack)) =>
          \A a \in Addrs, v \in 0..MaxEth :
            /\ ((deposit(a, v) \/ receive(a, v) \/ stubDeposit(a, v) \/ stubReceive(a, v))
                   /\ last'.err = "")
                => /\ balances' = [balances EXCEPT ![a] = balances[a] + v]
                   /\ UNCHANGED <<owner, guardian, paused>>
            /\ ((withdraw(a, v) \/ stubWithdraw(a, v)) /\ Len(stack') > Len(stack))
                => /\ balances' = [balances EXCEPT ![a] = balances[a] - v]
                   /\ UNCHANGED <<owner, guardian, paused>>
       /\ ((withdrawReturn(TRUE) \/ stubWithdrawReturn(TRUE)) /\ stack # <<>>)
            => UNCHANGED <<balances, totalAssets, owner, guardian, paused>>
       /\ last'.op \in {"setPaused", "setOwner", "setGuardian"} =>
            \A a \in Addrs, n \in Addrs \cup {Zero}, p \in BOOLEAN :
               (setPaused(a, p) \/ setOwner(a, n) \/ setGuardian(a, n) \/ stubSetOwner(a, n))
               => UNCHANGED <<balances, totalAssets, vaultEth>>]_vars

\* A withdraw by one of two depositors has completed and left the other's balance.
C13_Witness ==
    /\ last = Called("withdraw", "")
    /\ stack = <<>>
    /\ \E a, b \in Addrs : a # b /\ balances[a] = 0 /\ balances[b] = 1
    /\ vaultEth = 1

\* C19: in every state where paused is true, the owner and the guardian can each
\* call setPaused(false) with success (whenever they can call the vault at all);
\* such a call leaves every balance and totalAssets as they are, after it neither
\* deposit nor withdraw reverts with VAULT_PAUSED, and between the pause and
\* that call no balance and not totalAssets has changed; setOwner and
\* setGuardian by the owner succeed while paused.
C19_PauseNotPermanent ==
    /\ [](paused =>
            \A a \in {owner, guardian} \cap Addrs :
                CanCall(a) => ENABLED (setPaused(a, FALSE) /\ ~paused' /\ last'.err = ""))
    /\ [][paused =>
            /\ paused' => UNCHANGED <<balances, totalAssets>>
            /\ \A a \in Addrs :
                  (setPaused(a, FALSE) /\ ~paused')
                  => /\ UNCHANGED <<balances, totalAssets, vaultEth>>
                     /\ \A b \in Addrs, v \in 1..MaxEth :
                           /\ DepositErr(v)' = ""
                           /\ WithdrawErr(b, v)' # "VAULT_PAUSED"
            /\ \A n \in Addrs :
                  /\ setOwner(owner, n) => owner' = n /\ last'.err = ""
                  /\ setGuardian(owner, n) => guardian' = n /\ last'.err = ""]_vars

\* The owner was replaced while the vault was paused with funds in it.
C19_Witness ==
    /\ paused
    /\ totalAssets > 0
    /\ stack = <<>>
    /\ last = Called("setOwner", "")

(***************************************************************************)
(* Properties of readPublicEnv (specification SpecEnv)                     *)
(***************************************************************************)
HasValue(s) == envSrc[s].t = "string" /\ envSrc[s].v # ""

\* C10: a call of readPublicEnv never throws, whatever source is missing or
\* throws; it returns undefined when no source holds a non-empty string for the
\* key; and it never returns the empty string: a source holding "" is passed over
\* like a source without the key.
C10_MissingIsUndefined ==
    envResult # NotCalled =>
        /\ envResult.k = "return"
        /\ (\A s \in Sources : ~HasValue(s)) => envResult.val = JsUndefined
        /\ envResult.val # JsString("")
        /\ (envSrc["process.env"] = JsString("") /\ HasValue("__ENV__"))
              => envResult.val = envSrc["__ENV__"]

\* The function was called where process.env holds "" for the key, __ENV__ throws
\* and the other sources hold nothing, and it returned undefined.
C10_Witness ==
    /\ envResult = Return(JsUndefined)
    /\ envSrc["process.env"] = JsString("")
    /\ envSrc["__ENV__"] = Throws
    /\ envSrc["__NEXT_PUBLIC__"] = NoSource
    /\ envSrc["globalThis"] = JsNumber("7")

\* The sources in the order readPublicEnv consults them.
Priority == <<"process.env", "__ENV__", "__NEXT_PUBLIC__", "globalThis">>

\* C11: readPublicEnv returns the value of the first source, in the order
\* process.env, __ENV__, __NEXT_PUBLIC__, globalThis[key], that holds a non-empty
\* string for the key; in particular the value of __ENV__ when process.env
\* holds none.
C11_FirstNonEmptyWins ==
    envResult # NotCalled =>
        \A i \in 1..Len(Priority) :
            (HasValue(Priority[i]) /\ \A j \in 1..(i - 1) : ~HasValue(Priority[j]))
            => envResult = Return(envSrc[Priority[i]])

(***************************************************************************)
(* Properties of the page (specification SpecPage)                         *)
(***************************************************************************)
Range(s) == {s[i] : i \in 1..Len(s)}

DepositFlows == {flows[i] : i \in {j \in 1..Len(flows) : flows[j].kind = "deposit"}}
WithdrawFlows == {flows[i] : i \in {j \in 1..Len(flows) : flows[j].kind = "withdraw"}}

\* C6: every run of onDeposit issues its calls in the order allowance read,
\* approve, vault deposit: approve is issued exactly when the allowance read has
\* returned a value below assets, the deposit(assets, account) call is issued only
\* after the allowance read has returned and the approve, when issued, has
\* resolved; a rejected call ends the run with nothing submitted.
C6_DepositCallOrder ==
    /\ [](\A f \in DepositFlows :
            /\ f.log \in {<<"allowance">>,
                          <<"allowance", "allowance:ok", "approve">>,
                          <<"allowance", "allowance:ok", "deposit">>,
                          <<"allowance", "allowance:ok", "approve", "approve:ok", "deposit">>}
            /\ f.allowance = Undefined <=> f.log = <<"allowance">>
            /\ f.allowance # Undefined => ("approve" \in Range(f.log) <=> f.allowance < f.assets)
            /\ f.args = <<f.assets, f.account>>)
    /\ [][\A i \in 1..MaxFlows : CallRejected(i) =>
             /\ mempool' = mempool
             /\ Len(flows') = Len(flows) - 1
             /\ \A f \in DepositFlows' : f \in DepositFlows]_vars

\* A run that needed the approve has had it resolved and awaits the deposit.
C6_Witness ==
    \E f \in DepositFlows :
        /\ f.log = <<"allowance", "allowance:ok", "approve", "approve:ok", "deposit">>
        /\ f.allowance < f.assets
        /\ f.assets > 0

\* floor(n / 100) = q, without the division.
IsFloorOfHundredth(q, n) == 100 * q <= n /\ n < 100 * (q + 1)

\* C7: a run of onWithdraw exists only for a wallet, an address, a config and
\* positive cached shares, and issues exactly one call, redeem(shares, account,
\* account) with shares = floor(userShares * withdrawPct / 100) and account the
\* connected address; for every withdrawPct in 1..100 that value is at most
\* userShares and is userShares at 100; with userShares undefined or zero the
\* handler starts no run.
C7_RedeemShares ==
    /\ [](\A f \in WithdrawFlows :
            /\ f.log = <<"redeem">>
            /\ f.shares0 > 0
            /\ f.account \in Accounts
            /\ VAULT_ADDR # "" /\ USDC_ADDR # ""
            /\ IsFloorOfHundredth(f.assets, f.shares0 * f.pct0)
            /\ f.args = <<f.assets, f.account, f.account>>
            /\ f.assets <= f.shares0
            /\ f.pct0 = 100 => f.assets = f.shares0)
    /\ [](userShares > 0 =>
            \A p \in 1..100 :
                /\ IsFloorOfHundredth(RedeemShares(userShares, p), userShares * p)
                /\ RedeemShares(userShares, p) <= userShares
                /\ p = 100 => RedeemShares(userShares, p) = userShares)
    /\ [](~(userShares > 0) => ~ENABLED (onWithdraw /\ flows' # flows))
    /\ [][~(userShares > 0) => WithdrawFlows' \subseteq WithdrawFlows]_vars
    /\ [][(ClickWithdraw /\ wallet # NoWallet)
            => /\ Len(flows') = Len(flows) + 1
               /\ flows'[Len(flows')].kind = "withdraw"
               /\ flows'[Len(flows')].shares0 = userShares
               /\ flows'[Len(flows')].pct0 = withdrawPct
               /\ flows'[Len(flows')].account = address]_vars

\* A run redeems 25% of 7 shares: 1 share.
C7_Witness ==
    \E f \in WithdrawFlows :
        /\ f.shares0 = 7
        /\ f.pct0 = 25
        /\ f.args = <<1, address, address>>
        /\ connected

\* C8: with the vault address or the USDC address empty, whatever the wallet and
\* the address are, no run of the read effect awaits a read, no run of a handler
\* exists, busy is false, nothing was submitted, both buttons are disabled, and
\* a call of onDeposit or onWithdraw changes neither busy nor the runs.
C8_NoConfigNoCalls ==
    (VAULT_ADDR = "" \/ USDC_ADDR = "") =>
        /\ reads = <<>>
        /\ flows = <<>>
        /\ ~busy
        /\ mempool = <<>>
        /\ DepositDisabled
        /\ WithdrawDisabled
        /\ ~ENABLED (onDeposit /\ <<busy, flows>>' # <<busy, flows>>)
        /\ ~ENABLED (onWithdraw /\ <<busy, flows>>' # <<busy, flows>>)

\* A connected wallet with the vault address set and the USDC address missing,
\* after the user typed an amount.
C8_Witness ==
    /\ VAULT_ADDR # ""
    /\ USDC_ADDR = ""
    /\ wallet = WalletClient
    /\ connected
    /\ amount = <<"5">>

\* C9: onDeposit never issues a vault deposit call with assets below 10 USDC,
\* that is 10 * 10^decimals base units.
C9_MinimumDeposit ==
    \A f \in DepositFlows : f.pc = "deposit" => f.args[1] >= 10 * Pow10(f.dec)

\* C14: at the step in which a run of onDeposit issues the vault call
\* deposit(assets, account), the USDC allowance of account for the vault that is
\* in effect on chain is at least assets.
C14_AllowanceInEffect ==
    [][\A i \in 1..MaxFlows :
          ((AllowanceResolved(i) \/ ApproveResolved(i)) /\ flows'[i].pc = "deposit")
          => chainAllowance'[flows'[i].account] >= flows'[i].assets]_vars

\* C15: a step that ends a run of onDeposit or onWithdraw, by the last call
\* resolving or by any call rejecting, sets busy to false, and so does a click
\* with an amount that does not parse; busy is never true with no run in flight;
\* and when every pending call eventually settles, busy always becomes false
\* again.
C15_BusyReset ==
    /\ [](flows = <<>> => ~busy)
    /\ [][Len(flows') < Len(flows) => ~busy']_vars
    /\ [][(ClickDeposit /\ ~parseUnits(OrZero(amount), decimals).ok) => ~busy' /\ flows' = flows]_vars
    /\ (busy ~> ~busy)

\* A run of onDeposit has ended with its deposit submitted, and busy is false.
C15_Witness ==
    /\ ~busy
    /\ flows = <<>>
    /\ \E i \in 1..Len(mempool) : mempool[i].fn = "deposit"

\* C16: at most one run of onDeposit or onWithdraw is in flight: while busy is
\* true both buttons, the amount input, the chips and the slider are disabled, a
\* run starts only when none is in flight, and the calls submitted while a run
\* is in flight are that run's.
C16_OneFlowAtATime ==
    /\ [](Len(flows) <= 1)
    /\ [](busy <=> flows # <<>>)
    /\ [](busy =>
            /\ DepositDisabled
            /\ WithdrawDisabled
            /\ ~ENABLED ClickDeposit
            /\ ~ENABLED ClickWithdraw
            /\ \A cs \in AmountInputs : ~ENABLED AmountInput(cs)
            /\ \A p \in {25, 50, 75, 100} : ~ENABLED Chip(p)
            /\ \A v \in SliderValues : ~ENABLED Slider(v))
    /\ [][Len(flows') > Len(flows) => flows = <<>> /\ ~busy]_vars
    /\ [][Len(mempool') > Len(mempool)
            => /\ Len(flows) = 1
               /\ mempool'[Len(mempool')].account = flows[1].account
               /\ mempool'[Len(mempool')].arg = flows[1].assets]_vars

\* A run of onWithdraw is in flight after a run of onDeposit has ended with its
\* deposit submitted.
C16_Witness ==
    /\ busy
    /\ Len(flows) = 1
    /\ flows[1].kind = "withdraw"
    /\ \E i \in 1..Len(mempool) : mempool[i].fn = "deposit"

(***************************************************************************)
(* Properties of the wallet hook and the read effect (specification        *)
(* SpecHook)                                                               *)
(***************************************************************************)
\* The values the page shows for the user when the reads for addr have succeeded.
UserValuesOf(addr) ==
    IF addr = NoAddr THEN <<Undefined, Undefined>> ELSE <<ChainUsdc[addr], ChainShares[addr]>>

\* C17: a run of the read effect that was started for an address other than the
\* current one (an earlier address, or before a disconnect) does not change
\* usdcBal and userShares; and a run started for the current address leaves them
\* undefined if no address is connected and otherwise with the values read for
\* the connected address.
C17_UserValuesFollowAddress ==
    [][\A i \in 1..MaxReads :
          (ReadUser(i) \/ ReadTotalAssets(i)) =>
             IF reads[i].addr # address
               THEN UNCHANGED <<usdcBal, userShares>>
               ELSE Len(reads') < Len(reads) => <<usdcBal, userShares>>' = UserValuesOf(address')]_vars

\* C18: address is defined only if wallet is defined; connect without an injected
\* provider sets the error 'No injected wallet found' and leaves address and
\* wallet as they are, undefined; disconnect clears address and wallet together.
C18_AddressImpliesWallet ==
    /\ [](connected => wallet # NoWallet)
    /\ [][(ClickConnect /\ ~ethereum)
            => /\ walletError' = "No injected wallet found"
               /\ address' = NoAddr /\ wallet' = NoWallet]_vars
    /\ [][disconnect => address' = NoAddr /\ wallet' = NoWallet]_vars

=============================================================================
